---- MODULE Spec2Model ----
(***************************************************************************)
(* THREAT/crawl: the workday scheduler (CrawlerTimeController), the        *)
(* control signals (pause / terminate events, resume / solved conditions)  *)
(* and the crawl loop (CrawlerMain), as state machines.                    *)
(*                                                                         *)
(* Instants are seconds counted from local midnight of the day the process *)
(* is started; durations are seconds.  A queue entry is the pair           *)
(* <<start instant, duration>>, as in the source (br[0], br[1] there,      *)
(* br[1], br[2] here).                                                     *)
(***************************************************************************)
EXTENDS Integers, Sequences, FiniteSets, TLC

VARIABLES
    now,                \* wall-clock instant (datetime.now())
    sys_offset,         \* UTC offset of the system minus that of Europe/Amsterdam
    weekdaynr,          \* now.weekday() of the day the process is started, 0 = monday
    schedule,           \* Configuration.schedule: the entry of each day of the week
    skip_tokens,        \* main.py: started by the runner script of the crontab job
    workday,            \* config.workday after Configuration.setup_workday
    break_queue,        \* CrawlerTimeController.__break_queue (Queue, FIFO)
    interrupt_queue,    \* CrawlerTimeController.__interrupt_queue (deque)
    end_crawling_time,  \* CrawlerTimeController.__end_crawling_time
    start_time,         \* CrawlerTimeController.__start_time
    gpc,                \* position inside __generate_schedule
    current_time,       \* local of __generate_schedule
    br_idx,             \* index of the configured break being jittered
    break_list,         \* local of __generate_schedule: breaks + end sentinel
    li,                 \* index of the boundary of break_list being filled
    calculate_time,     \* local of __generate_schedule: the cursor
    cron,               \* pending crontab jobs tagged 'crawler_execution'
    ret,                \* <<value>> returned by check_break_interrupt in the last step
    op,                 \* the operation performed by the last step
    err,                \* exception raised in the last step
    arg,                \* <<argument>> of the _add_interrupt call of the last step
    adhoc,              \* <<duration>> of the ad-hoc interrupt added at this instant
    nadd,               \* number of _add_interrupt calls made
    pc,                 \* position of the crawler thread (start_crawling / __crawling)
    deadline,           \* instant at which the wait in progress times out
    pause_event,        \* threading.Event pause
    terminate_event,    \* threading.Event terminate
    cli_on,             \* CLI.execute_command: the local 'on'
    skipTraining,       \* preferences["skipTraining"]
    captcha,            \* InterpreterCaptcha: captcha_on_page, captcha_full_page, captcha_type
    training,           \* parse_page argument 'training'
    reuse,              \* parse_page argument 'reuse_method_identifiers_map'
    need_training,      \* Interpreter.__need_training
    waited,             \* solve_captcha has blocked since the last CAPTCHA detection
    parse_ret,          \* where the parse_page call in progress returns to
    cap_ret,            \* where the solve_captcha call in progress returns to
    train_left,         \* __training_sequence: training pages still to parse
    parsed_page,        \* CrawlerMain.__parsed_page
    possible_train_calls, \* calls of CrawlerPageProcessing.possible_train
    browser,            \* the Tor browser: "none", "running", "terminated", "killed"
    crawler,            \* the crawler thread: "idle", "running", or the exception that ended it
    exit_status,        \* <<status>> once the process has exited
    main_log            \* what main.py has logged about the end of the crawl

schedVars == <<break_queue, interrupt_queue, end_crawling_time, start_time>>
genVars == <<gpc, current_time, br_idx, break_list, li, calculate_time, cron>>
apiVars == <<ret, err, arg, adhoc, nadd>>
envVars == <<sys_offset, weekdaynr, schedule, skip_tokens, workday>>
coordVars == <<pc, deadline>>
ctlVars == <<pause_event, terminate_event, cli_on>>
parseVars == <<captcha, training, reuse, need_training, waited, parse_ret, cap_ret, train_left>>
procVars == <<parsed_page, possible_train_calls, browser, crawler, exit_status, main_log>>
crawlVars == <<coordVars, ctlVars, parseVars, procVars, skipTraining>>
vars == <<now, envVars, schedVars, genVars, apiVars, op, crawlVars>>

-----------------------------------------------------------------------------
(* Bounds of the model *)

TickStep == 3600
MaxTime == 66600
MaxAdHoc == 1
TrainingPages == 1

(* Program constants *)

BufferSeconds == 600
SentinelDuration == 1
SecondsPerDay == 86400
DaysPerWeek == 7

-----------------------------------------------------------------------------
(* Helpers *)

Last(s) == s[Len(s)]
Front(s) == SubSeq(s, 1, Len(s) - 1)
Reverse(s) == [i \in 1..Len(s) |-> s[Len(s) + 1 - i]]
MinOf(a, b) == IF a <= b THEN a ELSE b

\* timedelta(hours=h, minutes=m) for the "HH:MM" string split on ':'
HoursMinutes(hm) == (hm[1] * 60 + hm[2]) * 60

\* random.randint(a, b): the two ends of the range
RandInt(a, b) == IF a > b THEN {} ELSE {a, b}

NoAdHoc == <<>>
NoRet == <<>>
NoArg == <<>>

-----------------------------------------------------------------------------
(* User configurations (the 'schedule' entry of today and the deviations,  *)
(* all in minutes, as main.py copies them into config.workday).            *)

ScenarioA ==
    [workday |-> << <<9, 0>>, <<17, 0>> >>,
     breaks |-> << <<12, 0>>, <<13, 0>> >>,
     start_work_dev |-> 0, end_work_dev |-> 0,
     start_break_dev |-> 0, end_break_dev |-> 0,
     min_interrupt_length |-> 10, max_interrupt_length |-> 15,
     time_btw_interrupts |-> 120, time_btw_interrupts_dev |-> 0]

CloseBreaks ==
    [workday |-> << <<9, 0>>, <<11, 30>> >>,
     breaks |-> << <<10, 0>>, <<10, 10>>, <<10, 15>>, <<10, 25>> >>,
     start_work_dev |-> 0, end_work_dev |-> 0,
     start_break_dev |-> 10, end_break_dev |-> 0,
     min_interrupt_length |-> 5, max_interrupt_length |-> 8,
     time_btw_interrupts |-> 50, time_btw_interrupts_dev |-> 0]

JitteredDay ==
    [workday |-> << <<9, 0>>, <<10, 30>> >>,
     breaks |-> << >>,
     start_work_dev |-> 5, end_work_dev |-> 5,
     start_break_dev |-> 0, end_break_dev |-> 0,
     min_interrupt_length |-> 5, max_interrupt_length |-> 5,
     time_btw_interrupts |-> 30, time_btw_interrupts_dev |-> 10]

Profiles == {ScenarioA, CloseBreaks, JitteredDay}

\* instants at which the process is started
BuildTimes == {HoursMinutes(<<8, 30>>), HoursMinutes(<<9, 0>>), HoursMinutes(<<9, 30>>),
               HoursMinutes(<<17, 30>>)}

SysOffsets == {0, 3600}

AdHocDurations == {-5, 300}

\* the configuration and the start instants of the whole-process model
ShortDay ==
    [workday |-> << <<15, 0>>, <<17, 0>> >>,
     breaks |-> << <<16, 0>>, <<16, 10>> >>,
     start_work_dev |-> 0, end_work_dev |-> 0,
     start_break_dev |-> 0, end_break_dev |-> 0,
     min_interrupt_length |-> 5, max_interrupt_length |-> 5,
     time_btw_interrupts |-> 30, time_btw_interrupts_dev |-> 0]

\* a workday whose nominal start lies after its nominal end
InvertedDay ==
    [workday |-> << <<17, 0>>, <<16, 0>> >>,
     breaks |-> << >>,
     start_work_dev |-> 0, end_work_dev |-> 0,
     start_break_dev |-> 0, end_break_dev |-> 0,
     min_interrupt_length |-> 5, max_interrupt_length |-> 5,
     time_btw_interrupts |-> 30, time_btw_interrupts_dev |-> 0]

ProgramProfiles == {ShortDay, InvertedDay}

\* Configuration.schedule, one entry per day of the week; the "workday" list
\* of a day off is empty
WeekDayNames == <<"monday", "tuesday", "wednesday", "thursday", "friday", "saturday", "sunday">>
DayOff(p) == [p EXCEPT !.workday = <<>>, !.breaks = <<>>]

\* every day of the week a workday with the same hours
EveryDay(p) == [d \in {WeekDayNames[i] : i \in 1..DaysPerWeek} |-> p]

\* monday as q, tuesday to friday as p, the weekend off
WorkWeek(p, q) ==
    [d \in {WeekDayNames[i] : i \in 1..DaysPerWeek} |->
        IF d = "monday" THEN q
        ELSE IF d \in {"saturday", "sunday"} THEN DayOff(p)
        ELSE p]

\* only wednesday a workday
WednesdayOnly(p) ==
    [d \in {WeekDayNames[i] : i \in 1..DaysPerWeek} |->
        IF d = "wednesday" THEN p ELSE DayOff(p)]

\* a day that starts and ends earlier than ShortDay
EarlyDay ==
    [workday |-> << <<14, 0>>, <<16, 0>> >>,
     breaks |-> << >>,
     start_work_dev |-> 0, end_work_dev |-> 0,
     start_break_dev |-> 0, end_break_dev |-> 0,
     min_interrupt_length |-> 5, max_interrupt_length |-> 5,
     time_btw_interrupts |-> 30, time_btw_interrupts_dev |-> 0]

\* a 10-minute break whose start may be moved by 15 minutes either way: moved
\* forward it starts at 16:15 and ends at 16:10
LateBreakDay ==
    [workday |-> << <<15, 0>>, <<17, 0>> >>,
     breaks |-> << <<16, 0>>, <<16, 10>> >>,
     start_work_dev |-> 0, end_work_dev |-> 0,
     start_break_dev |-> 15, end_break_dev |-> 0,
     min_interrupt_length |-> 5, max_interrupt_length |-> 5,
     time_btw_interrupts |-> 30, time_btw_interrupts_dev |-> 0]

WeekSchedules ==
    {EveryDay(ShortDay), WorkWeek(ShortDay, EarlyDay), WorkWeek(InvertedDay, InvertedDay),
     WednesdayOnly(ShortDay), EveryDay(LateBreakDay)}
ProgramBuildTimes == {HoursMinutes(<<14, 30>>), HoursMinutes(<<16, 0>>), HoursMinutes(<<17, 30>>)}

-----------------------------------------------------------------------------
(* Configuration.setup_workday: the workday of today.  workday_date is     *)
(* local midnight, instant 0.                                              *)

\* Configuration.get_week_day
get_week_day(nr) == WeekDayNames[(nr % DaysPerWeek) + 1]

\* __prepare_breaks_and_start_end_time, lines 82-85: the weekday number after
\* the loop
RECURSIVE next_workday(_)
next_workday(nr) ==
    IF schedule[get_week_day(nr)].workday # <<>> THEN nr
    ELSE next_workday(nr + 1)

\* __prepare_breaks_and_start_end_time: the breaks, start and end time of the
\* first workday from weekday nr on.  The loop also advances its own
\* workday_date, which is not among the values returned: the caller's
\* workday_date stays what it was.
prepare_breaks_and_start_end_time(nr, workday_date) == schedule[get_week_day(next_workday(nr))]

\* the while loop that skips the breaks that have already started
RECURSIVE SkipStartedBreaks(_, _, _)
SkipStartedBreaks(breaks, i, t) ==
    IF i > Len(breaks) THEN i
    ELSE IF t < HoursMinutes(breaks[i]) THEN i
    ELSE SkipStartedBreaks(breaks, i + 2, t)

RECURSIVE BreakList(_, _)
BreakList(breaks, i) ==
    IF i > Len(breaks) THEN <<>>
    ELSE <<<<HoursMinutes(breaks[i]), HoursMinutes(breaks[i + 1])>>>>
         \o BreakList(breaks, i + 2)

setup_workday(p, t) ==
    LET nominal_start == HoursMinutes(p.workday[1])
        started == t > nominal_start
        i == IF started THEN SkipStartedBreaks(p.breaks, 1, t) ELSE 1
    IN [start_time |-> IF started THEN t ELSE nominal_start,
        end_time |-> HoursMinutes(p.workday[2]),
        breaks |-> BreakList(p.breaks, i),
        nominal_start |-> nominal_start,
        start_work_dev |-> p.start_work_dev,
        end_work_dev |-> p.end_work_dev,
        start_break_dev |-> p.start_break_dev,
        end_break_dev |-> p.end_break_dev,
        min_interrupt_length |-> p.min_interrupt_length,
        max_interrupt_length |-> p.max_interrupt_length,
        time_btw_interrupts |-> p.time_btw_interrupts,
        time_btw_interrupts_dev |-> p.time_btw_interrupts_dev]

\* Configuration.get_start_date_next_day: now + timedelta(days=1), midnight of
\* that date as workday_date, plus the start time that
\* __prepare_breaks_and_start_end_time returns for that day
get_start_date_next_day ==
    LET workday_date == SecondsPerDay
    IN workday_date
         + HoursMinutes(prepare_breaks_and_start_end_time(weekdaynr + 1, workday_date).workday[1])

-----------------------------------------------------------------------------
(* CrawlerTimeController.__generate_schedule, one action per block         *)

\* the start of __generate_schedule without the put of lines 208-209: no
\* initial break is queued
GenStartEndNoInitialBreak ==
    /\ gpc = "start"
    /\ \E dev_end \in RandInt(workday.end_work_dev * (-60), workday.end_work_dev * 60),
          dev_start \in RandInt(workday.start_work_dev * (-60), workday.start_work_dev * 60) :
        /\ end_crawling_time' = workday.end_time + dev_end
        /\ start_time' = workday.start_time + dev_start
        /\ current_time' = now
        /\ break_queue' = <<>>
    /\ gpc' = "breaks"
    /\ br_idx' = 1
    /\ op' = "build"
    /\ UNCHANGED <<crawlVars, now, envVars, interrupt_queue, break_list, li, calculate_time, cron, apiVars>>

\* lines 186-209: end time, start time, the initial break
GenStartEnd ==
    /\ gpc = "start"
    /\ \E dev_end \in RandInt(workday.end_work_dev * (-60), workday.end_work_dev * 60),
          dev_start \in RandInt(workday.start_work_dev * (-60), workday.start_work_dev * 60) :
        LET start_dur == workday.start_time - now + dev_start IN
        /\ end_crawling_time' = workday.end_time + dev_end
        /\ start_time' = workday.start_time + dev_start
        /\ current_time' = now
        /\ break_queue' = IF start_dur > 0 THEN <<<<now, start_dur>>>> ELSE <<>>
    /\ gpc' = "breaks"
    /\ br_idx' = 1
    /\ op' = "build"
    /\ UNCHANGED <<crawlVars, now, envVars, interrupt_queue, break_list, li, calculate_time, cron, apiVars>>

\* lines 212-227: one configured break, jittered
GenBreak ==
    /\ gpc = "breaks"
    /\ br_idx <= Len(workday.breaks)
    /\ \E dev_break_start \in RandInt(workday.start_break_dev * (-60), workday.start_break_dev * 60),
          dev_break_end \in RandInt(workday.end_break_dev * (-60), workday.end_break_dev * 60) :
        LET br == workday.breaks[br_idx]
            br_start == br[1] + dev_break_start
            br_end == br[2] + dev_break_end
            br_dur == br_end - br_start
        IN break_queue' = Append(break_queue, <<br_start, br_dur>>)
    /\ br_idx' = br_idx + 1
    /\ op' = "build"
    /\ UNCHANGED <<crawlVars, now, envVars, interrupt_queue, end_crawling_time, start_time, gpc,
                   current_time, break_list, li, calculate_time, cron, apiVars>>

\* lines 229-236: the boundary list and the cursor
GenBoundaries ==
    /\ gpc = "breaks"
    /\ br_idx > Len(workday.breaks)
    /\ break_list' = Append(break_queue, <<end_crawling_time, SentinelDuration>>)
    /\ calculate_time' = current_time
    /\ li' = 1
    /\ gpc' = "boundaries"
    /\ op' = "build"
    /\ UNCHANGED <<crawlVars, now, envVars, schedVars, current_time, br_idx, cron, apiVars>>

\* lines 239-246: the next boundary; a boundary already started moves the cursor
GenBoundary ==
    /\ gpc = "boundaries"
    /\ li <= Len(break_list)
    /\ LET br == break_list[li] IN
        IF br[1] <= calculate_time
        THEN /\ calculate_time' = br[1] + br[2]
             /\ li' = li + 1
             /\ gpc' = gpc
        ELSE /\ gpc' = "fill"
             /\ UNCHANGED <<calculate_time, li>>
    /\ op' = "build"
    /\ UNCHANGED <<crawlVars, now, envVars, schedVars, current_time, br_idx, break_list, cron, apiVars>>

\* the gap filling without the test of line 263: every candidate is queued
GenFillAcceptAll ==
    /\ gpc = "fill"
    /\ calculate_time < break_list[li][1]
    /\ \E interrupt_after \in RandInt((workday.time_btw_interrupts - workday.time_btw_interrupts_dev) * 60,
                                      (workday.time_btw_interrupts + workday.time_btw_interrupts_dev) * 60),
          interrupt_dur \in RandInt(workday.min_interrupt_length * 60, workday.max_interrupt_length * 60) :
        LET interrupt_start == calculate_time + interrupt_after
        IN /\ interrupt_queue' = <<<<interrupt_start, interrupt_dur>>>> \o interrupt_queue
           /\ calculate_time' = interrupt_start + interrupt_dur
    /\ op' = "build"
    /\ UNCHANGED <<crawlVars, now, envVars, break_queue, end_crawling_time, start_time, gpc, current_time,
                   br_idx, break_list, li, cron, apiVars>>

\* lines 247-268: one candidate interruption in the gap before the boundary
GenFill ==
    /\ gpc = "fill"
    /\ calculate_time < break_list[li][1]
    /\ \E interrupt_after \in RandInt((workday.time_btw_interrupts - workday.time_btw_interrupts_dev) * 60,
                                      (workday.time_btw_interrupts + workday.time_btw_interrupts_dev) * 60),
          interrupt_dur \in RandInt(workday.min_interrupt_length * 60, workday.max_interrupt_length * 60) :
        LET br == break_list[li]
            interrupt_start == calculate_time + interrupt_after
        IN IF (br[1] - BufferSeconds) > (interrupt_start + interrupt_dur)
           THEN /\ interrupt_queue' = <<<<interrupt_start, interrupt_dur>>>> \o interrupt_queue
                /\ calculate_time' = interrupt_start + interrupt_dur
           ELSE /\ calculate_time' = br[1] + br[2]
                /\ UNCHANGED interrupt_queue
    /\ op' = "build"
    /\ UNCHANGED <<crawlVars, now, envVars, break_queue, end_crawling_time, start_time, gpc, current_time,
                   br_idx, break_list, li, cron, apiVars>>

\* line 247: the while condition fails, on to the next boundary
GenFillExit ==
    /\ gpc = "fill"
    /\ ~(calculate_time < break_list[li][1])
    /\ li' = li + 1
    /\ gpc' = "boundaries"
    /\ op' = "build"
    /\ UNCHANGED <<crawlVars, now, envVars, schedVars, current_time, br_idx, break_list, calculate_time,
                   cron, apiVars>>

\* __schedule_next_execution without the remove_all of line 296
schedule_without_remove_all == cron' = Append(cron, get_start_date_next_day)

\* lines 275-302: remove_all(comment='crawler_execution'), then one new job
schedule_next_execution == cron' = <<get_start_date_next_day>>

\* the end of __generate_schedule without the exit of lines 271-273
GenFinishWithoutExit ==
    /\ gpc = "boundaries"
    /\ li > Len(break_list)
    /\ schedule_next_execution
    /\ gpc' = "done"
    /\ op' = "build"
    /\ UNCHANGED <<crawlVars, now, envVars, schedVars, current_time, br_idx, break_list, li,
                   calculate_time, apiVars>>

\* lines 270-273: the restart trigger, then the infeasible-day exit
GenFinish ==
    /\ gpc = "boundaries"
    /\ li > Len(break_list)
    /\ schedule_next_execution
    /\ gpc' = IF start_time > end_crawling_time THEN "exit0" ELSE "done"
    /\ op' = "build"
    /\ UNCHANGED <<crawlVars, now, envVars, schedVars, current_time, br_idx, break_list, li,
                   calculate_time, apiVars>>

-----------------------------------------------------------------------------
(* CrawlerTimeController: the operations on the built schedule             *)

\* datetime.now().astimezone(self.__timezone): the current instant
astimezone_now == now

\* self.__timezone.localize(datetime.now()): the system's wall clock read
\* as if it were Amsterdam's
localize_now == now + sys_offset

\* check_break_interrupt looking at the interruptions before the breaks
check_interrupt_first ==
    IF interrupt_queue # <<>> /\ Last(interrupt_queue)[1] <= astimezone_now
    THEN /\ ret' = <<Last(interrupt_queue)[2]>>
         /\ interrupt_queue' = Front(interrupt_queue)
         /\ UNCHANGED break_queue
    ELSE IF break_queue # <<>> /\ Head(break_queue)[1] <= astimezone_now
    THEN /\ ret' = <<Head(break_queue)[2]>>
         /\ break_queue' = Tail(break_queue)
         /\ UNCHANGED interrupt_queue
    ELSE /\ ret' = <<0>>
         /\ UNCHANGED <<break_queue, interrupt_queue>>

\* check_break_interrupt popping the next interruption without comparing
\* its start with the clock
check_interrupt_not_due ==
    IF break_queue # <<>> /\ Head(break_queue)[1] <= astimezone_now
    THEN /\ ret' = <<Head(break_queue)[2]>>
         /\ break_queue' = Tail(break_queue)
         /\ UNCHANGED interrupt_queue
    ELSE IF interrupt_queue # <<>>
    THEN /\ ret' = <<Last(interrupt_queue)[2]>>
         /\ interrupt_queue' = Front(interrupt_queue)
         /\ UNCHANGED break_queue
    ELSE /\ ret' = <<0>>
         /\ UNCHANGED <<break_queue, interrupt_queue>>

\* check_break_interrupt reading the entry it returns without removing it
\* (queue[0] instead of get(), [-1] instead of pop())
check_without_pop ==
    /\ ret' = IF break_queue # <<>> /\ Head(break_queue)[1] <= astimezone_now
              THEN <<Head(break_queue)[2]>>
              ELSE IF interrupt_queue # <<>> /\ Last(interrupt_queue)[1] <= astimezone_now
              THEN <<Last(interrupt_queue)[2]>>
              ELSE <<0>>
    /\ UNCHANGED <<break_queue, interrupt_queue>>

\* lines 101-129
check_break_interrupt ==
    IF break_queue # <<>> /\ Head(break_queue)[1] <= astimezone_now
    THEN /\ ret' = <<Head(break_queue)[2]>>
         /\ break_queue' = Tail(break_queue)
         /\ UNCHANGED interrupt_queue
    ELSE IF interrupt_queue # <<>> /\ Last(interrupt_queue)[1] <= astimezone_now
    THEN /\ ret' = <<Last(interrupt_queue)[2]>>
         /\ interrupt_queue' = Front(interrupt_queue)
         /\ UNCHANGED break_queue
    ELSE /\ ret' = <<0>>
         /\ UNCHANGED <<break_queue, interrupt_queue>>

\* _add_interrupt validating its argument only after the append
add_interrupt_late_check(interrupt_time) ==
    /\ err' = IF interrupt_time < 0 THEN "ValueError" ELSE "none"
    /\ interrupt_queue' = Append(interrupt_queue, <<localize_now, interrupt_time>>)

\* lines 79-99
add_interrupt(interrupt_time) ==
    IF interrupt_time < 0
    THEN /\ err' = "ValueError"
         /\ UNCHANGED interrupt_queue
    ELSE /\ err' = "none"
         /\ interrupt_queue' = Append(interrupt_queue, <<localize_now, interrupt_time>>)

\* check_end_time true only after the end instant has passed
check_end_time_strict == end_crawling_time < astimezone_now

\* lines 153-162
check_end_time == end_crawling_time <= astimezone_now

\* CrawlerMain.generate_cli_status, lines 245-247: the deque that
\* get_interrupt_schedule returns is the controller's own, reversed in place
generate_cli_status == interrupt_queue' = Reverse(interrupt_queue)

-----------------------------------------------------------------------------
(* The time controller driven by a caller, with time passing               *)

Tick ==
    /\ gpc = "done"
    /\ now < MaxTime
    /\ now' = MinOf(now + TickStep, MaxTime)
    /\ op' = "tick"
    /\ ret' = NoRet
    /\ err' = "none"
    /\ arg' = NoArg
    /\ adhoc' = NoAdHoc
    /\ UNCHANGED <<crawlVars, envVars, schedVars, genVars, nadd>>

CallCheck ==
    /\ gpc = "done"
    /\ check_break_interrupt
    /\ op' = "check"
    /\ err' = "none"
    /\ arg' = NoArg
    /\ adhoc' = NoAdHoc
    /\ UNCHANGED <<crawlVars, now, envVars, end_crawling_time, start_time, genVars, nadd>>

CallAddInterrupt ==
    /\ gpc = "done"
    /\ nadd < MaxAdHoc
    /\ \E d \in AdHocDurations :
        /\ add_interrupt(d)
        /\ arg' = <<d>>
        /\ adhoc' = IF d < 0 THEN adhoc ELSE <<d>>
    /\ nadd' = nadd + 1
    /\ op' = "add"
    /\ ret' = NoRet
    /\ UNCHANGED <<crawlVars, now, envVars, break_queue, end_crawling_time, start_time, genVars>>

CallStatus ==
    /\ gpc = "done"
    /\ generate_cli_status
    /\ op' = "status"
    /\ ret' = NoRet
    /\ err' = "none"
    /\ arg' = NoArg
    /\ UNCHANGED <<crawlVars, now, envVars, break_queue, end_crawling_time, start_time, genVars, adhoc, nadd>>

-----------------------------------------------------------------------------
(* The interpreter's CAPTCHA handling (Interpreter.parse_page,             *)
(* InterpreterCaptcha.parse_page, CaptchaSolver.solve_captcha)             *)

\* the markers InterpreterCaptcha.parse_page looks for in a saved page
PlainPage == [recaptcha |-> FALSE, honeypot |-> FALSE, cloudflare |-> FALSE]
RecaptchaPage == [recaptcha |-> TRUE, honeypot |-> FALSE, cloudflare |-> FALSE]
HoneypotPage == [recaptcha |-> FALSE, honeypot |-> TRUE, cloudflare |-> FALSE]
CloudflarePage == [recaptcha |-> FALSE, honeypot |-> FALSE, cloudflare |-> TRUE]
Pages == {PlainPage, RecaptchaPage, HoneypotPage, CloudflarePage}

NoCaptcha == [on_page |-> FALSE, full_page |-> FALSE, type |-> "None"]

\* InterpreterCaptcha.parse_page: the attributes are reset, then every test
\* that matches overwrites the type set by the tests before it
inter_cap_parse_page(page) ==
    LET c1 == IF page.recaptcha
              THEN [on_page |-> TRUE, full_page |-> FALSE, type |-> "RECAPTCHA"]
              ELSE NoCaptcha
        c2 == IF page.honeypot
              THEN [c1 EXCEPT !.on_page = TRUE, !.type = "HONEYPOT"]
              ELSE c1
    IN IF page.cloudflare
       THEN [on_page |-> TRUE, full_page |-> TRUE, type |-> "HCAPTCHA"]
       ELSE c2

\* solve_captcha passing through when a solved notify has just been issued,
\* as if the condition remembered it
solve_captcha_remembering(captcha_type, next) ==
    IF captcha_type # "HONEYPOT" /\ op # "solved"
    THEN /\ pc' = "captcha_wait"
         /\ cap_ret' = next
    ELSE /\ pc' = next
         /\ UNCHANGED cap_ret

\* CaptchaSolver.solve_captcha: block on the solved condition, no timeout,
\* unless the type is HONEYPOT; 'next' is where the caller continues
solve_captcha(captcha_type, next) ==
    IF captcha_type # "HONEYPOT"
    THEN /\ pc' = "captcha_wait"
         /\ cap_ret' = next
    ELSE /\ pc' = next
         /\ UNCHANGED cap_ret

\* a call of Interpreter.parse_page(page, training=tr, reuse_method_identifiers_map=ru)
\* that returns to 'next'
parse_page(tr, ru, next) ==
    /\ pc' = "parse_detect"
    /\ training' = tr
    /\ reuse' = ru
    /\ parse_ret' = next

\* interpreter.py 262-270: detect, and wait while the CAPTCHA fills the page;
\* the page is saved again after each wait
ParseDetect ==
    /\ pc = "parse_detect"
    /\ \E page \in Pages :
        /\ captcha' = inter_cap_parse_page(page)
        /\ IF captcha'.full_page
           THEN solve_captcha(captcha'.type, "parse_detect")
           ELSE /\ pc' = "parse_onpage"
                /\ UNCHANGED cap_ret
    /\ waited' = (pc' = "captcha_wait")
    /\ op' = "step"
    /\ UNCHANGED <<now, envVars, schedVars, genVars, apiVars, deadline, ctlVars, training, reuse,
                   need_training, parse_ret, train_left, procVars, skipTraining>>

\* interpreter.py 273-277: outside training, a CAPTCHA inside the page
ParseOnPage ==
    /\ pc = "parse_onpage"
    /\ IF ~training /\ captcha.on_page /\ ~captcha.full_page
       THEN solve_captcha(captcha.type, "parse_train")
       ELSE /\ pc' = "parse_train"
            /\ UNCHANGED cap_ret
    /\ waited' = (waited \/ pc' = "captcha_wait")
    /\ op' = "step"
    /\ UNCHANGED <<now, envVars, schedVars, genVars, apiVars, deadline, ctlVars, captcha, training,
                   reuse, need_training, parse_ret, train_left, procVars, skipTraining>>

\* interpreter.py 283-290 and the end of __start_training, 1238-1245
ParseTrain ==
    /\ pc = "parse_train"
    /\ IF need_training \/ reuse
       THEN /\ need_training' \in BOOLEAN
            /\ IF captcha.on_page /\ ~captcha.full_page
               THEN solve_captcha(captcha.type, "parse_return")
               ELSE /\ pc' = "parse_return"
                    /\ UNCHANGED cap_ret
       ELSE /\ pc' = "parse_return"
            /\ UNCHANGED <<need_training, cap_ret>>
    /\ waited' = (waited \/ pc' = "captcha_wait")
    /\ op' = "step"
    /\ UNCHANGED <<now, envVars, schedVars, genVars, apiVars, deadline, ctlVars, captcha, training,
                   reuse, parse_ret, train_left, procVars, skipTraining>>

\* what parse_page returns: the page type, and for a thread its relevancy
\* and word count
ThreadRelevant == [page_type |-> "ThreadPage", relevant |-> TRUE, nrof_words_on_page |-> 0]
SectionPage == [page_type |-> "SectionPage", relevant |-> FALSE, nrof_words_on_page |-> 0]
NoPage == [page_type |-> "None", relevant |-> FALSE, nrof_words_on_page |-> 0]
ParsedPages == {ThreadRelevant, SectionPage}

\* interpreter.py 292-330: the parsed data goes back to the caller
ParseReturn ==
    /\ pc = "parse_return"
    /\ parsed_page' \in ParsedPages
    /\ pc' = parse_ret
    /\ training' = FALSE
    /\ reuse' = FALSE
    /\ parse_ret' = "none"
    /\ waited' = FALSE
    /\ op' = "step"
    /\ UNCHANGED <<now, envVars, schedVars, genVars, apiVars, deadline, ctlVars, captcha,
                   need_training, cap_ret, train_left, possible_train_calls, browser,
                   crawler, exit_status, main_log, skipTraining>>

-----------------------------------------------------------------------------
(* CrawlerMain: start_crawling, __crawling, __shutdown, _terminate_crawling *)

ResumeWaits == {"start_wait", "fetch_wait", "break_wait"}

\* the statement after each 'with self.__resume_condition: wait(timeout=...)'
AfterWait(p) ==
    IF p = "start_wait" THEN "start_browser"
    ELSE IF p = "fetch_wait" THEN "interact"
    ELSE "pause_check"

\* crawling.delay, set in main.py
DelayRange == <<6, 12>>

\* CrawlerMain.__compute_fetch_delay; a relevant thread page takes
\* int((nrof_words_on_page / reading_speed) * 60) seconds, whatever the speed
\* when the page has no words
compute_fetch_delay(page) ==
    IF page.page_type = "None" THEN {0}
    ELSE IF page.page_type = "ThreadPage" /\ page.relevant /\ page.nrof_words_on_page = 0 THEN {0}
    ELSE RandInt(DelayRange[1], DelayRange[2])

\* start_crawling, line 143
StartStatus ==
    /\ pc = "start"
    /\ gpc = "done"
    /\ generate_cli_status
    /\ pc' = "start_check"
    /\ crawler' = "running"
    /\ op' = "status"
    /\ UNCHANGED <<now, envVars, break_queue, end_crawling_time, start_time, genVars, apiVars,
                   deadline, ctlVars, parseVars, parsed_page, possible_train_calls, browser,
                   exit_status, main_log, skipTraining>>

\* start_crawling, lines 149-156: wait for the start of the workday
StartCheck ==
    /\ pc = "start_check"
    /\ check_break_interrupt
    /\ IF ret'[1] > 0
       THEN /\ pc' = "start_wait"
            /\ deadline' = MinOf(now + ret'[1], MaxTime)
       ELSE /\ pc' = "start_browser"
            /\ UNCHANGED deadline
    /\ op' = "check"
    /\ UNCHANGED <<now, envVars, end_crawling_time, start_time, genVars, err, arg, adhoc, nadd,
                   ctlVars, parseVars, procVars, skipTraining>>

\* start_crawling, lines 161-166, and next_page with cur_page None
\* (crawler_page_processing.py 134-147)
StartBrowser ==
    /\ pc = "start_browser"
    /\ browser' = "running"
    /\ IF skipTraining
       THEN /\ parse_page(FALSE, FALSE, "crawl_next")
            /\ UNCHANGED train_left
       ELSE /\ pc' = "train_seq"
            /\ train_left' = TrainingPages
            /\ UNCHANGED <<training, reuse, parse_ret>>
    /\ op' = "step"
    /\ UNCHANGED <<now, envVars, schedVars, genVars, apiVars, deadline, ctlVars, captcha,
                   need_training, waited, cap_ret, parsed_page, possible_train_calls, crawler,
                   exit_status, main_log, skipTraining>>

\* __training_sequence: the training pages, then the front page once more
TrainSeq ==
    /\ pc = "train_seq"
    /\ IF train_left > 0
       THEN /\ \E ru \in BOOLEAN : parse_page(TRUE, ru, "train_seq")
            /\ train_left' = train_left - 1
       ELSE /\ parse_page(TRUE, FALSE, "crawl_next")
            /\ UNCHANGED train_left
    /\ op' = "step"
    /\ UNCHANGED <<now, envVars, schedVars, genVars, apiVars, deadline, ctlVars, captcha,
                   need_training, waited, cap_ret, procVars, skipTraining>>

\* __crawling, line 316: next_page with the current page
CrawlNext ==
    /\ pc = "crawl_next"
    /\ parse_page(FALSE, FALSE, "loop_status")
    /\ op' = "step"
    /\ UNCHANGED <<now, envVars, schedVars, genVars, apiVars, deadline, ctlVars, captcha,
                   need_training, waited, cap_ret, train_left, procVars, skipTraining>>

\* __crawling, lines 319-329: status, then the reading wait begins
LoopStatus ==
    /\ pc = "loop_status"
    /\ generate_cli_status
    /\ \E fetch_delay \in compute_fetch_delay(parsed_page) :
        deadline' = MinOf(now + fetch_delay, MaxTime)
    /\ pc' = "fetch_wait"
    /\ op' = "status"
    /\ UNCHANGED <<now, envVars, break_queue, end_crawling_time, start_time, genVars, apiVars,
                   ctlVars, parseVars, procVars, skipTraining>>

\* the timeout of a resume_condition.wait(timeout=...) elapses
WaitTimeout ==
    /\ pc \in ResumeWaits
    /\ now >= deadline
    /\ pc' = AfterWait(pc)
    /\ deadline' = 0
    /\ op' = "timeout"
    /\ UNCHANGED <<now, envVars, schedVars, genVars, apiVars, ctlVars, parseVars,
                   procVars, skipTraining>>

\* __crawling, lines 331-343: interact with the page, then the break check
InteractCheck ==
    /\ pc = "interact"
    /\ check_break_interrupt
    /\ IF ret'[1] > 0
       THEN /\ pc' = "break_wait"
            /\ deadline' = MinOf(now + ret'[1], MaxTime)
       ELSE /\ pc' = "pause_check"
            /\ UNCHANGED deadline
    /\ op' = "check"
    /\ UNCHANGED <<now, envVars, end_crawling_time, start_time, genVars, err, arg, adhoc, nadd,
                   ctlVars, parseVars, procVars, skipTraining>>

\* __crawling, line 347: the condition of the pause loop
PauseCheck ==
    /\ pc = "pause_check"
    /\ pc' = IF pause_event THEN "pause_sleep" ELSE "terminate_check"
    /\ op' = "step"
    /\ UNCHANGED <<now, envVars, schedVars, genVars, apiVars, deadline, ctlVars, parseVars,
                   procVars, skipTraining>>

\* the body of the pause loop without the test of line 352
PauseSleepWithoutPoll ==
    /\ pc = "pause_sleep"
    /\ pc' = "pause_check"
    /\ op' = "pause_poll"
    /\ UNCHANGED <<now, envVars, schedVars, genVars, apiVars, deadline, ctlVars, parseVars,
                   procVars, skipTraining>>

\* __crawling, lines 351-353: time.sleep(2), then terminate is polled
PauseSleep ==
    /\ pc = "pause_sleep"
    /\ pc' = IF terminate_event THEN "shutdown" ELSE "pause_check"
    /\ op' = "pause_poll"
    /\ UNCHANGED <<now, envVars, schedVars, genVars, apiVars, deadline, ctlVars, parseVars,
                   procVars, skipTraining>>

\* the terminate check testing the pause event instead
terminate_check_on_pause == pause_event

\* __crawling, line 355
terminate_check == terminate_event

TerminateCheck ==
    /\ pc = "terminate_check"
    /\ pc' = IF terminate_check THEN "shutdown" ELSE "end_check"
    /\ op' = "step"
    /\ UNCHANGED <<now, envVars, schedVars, genVars, apiVars, deadline, ctlVars, parseVars,
                   procVars, skipTraining>>

\* the end-of-day test made on any page, thread pages included
end_of_day_any_page == check_end_time

\* __crawling, lines 359-360: check_end_time is consulted only when the
\* current page is not a thread page
end_of_day_reached == parsed_page.page_type # "ThreadPage" /\ check_end_time

\* __crawling, lines 359-361: the end of the workday, never inside a thread
EndCheck ==
    /\ pc = "end_check"
    /\ pc' = IF end_of_day_reached THEN "terminate_crawling" ELSE "crawl_next"
    /\ op' = "end_check"
    /\ UNCHANGED <<now, envVars, schedVars, genVars, apiVars, deadline, ctlVars, parseVars,
                   procVars, skipTraining>>

\* __shutdown, lines 399-401, called from inside asyncio.run(__crawling()):
\* run_until_complete refuses to start a loop while another one is running
\* and raises RuntimeError before _terminate_crawling runs; the exception
\* ends the crawler thread
Shutdown ==
    /\ pc = "shutdown"
    /\ crawler' = "RuntimeError"
    /\ pc' = "thread_ended"
    /\ op' = "step"
    /\ UNCHANGED <<now, envVars, schedVars, genVars, apiVars, deadline, ctlVars, parseVars,
                   parsed_page, possible_train_calls, browser, exit_status, main_log, skipTraining>>

\* _terminate_crawling, lines 202-215: possible_train, terminate_browser,
\* then sys.exit(0), which ends the crawler thread
TerminateCrawling ==
    /\ pc = "terminate_crawling"
    /\ possible_train_calls' = possible_train_calls + 1
    /\ browser' = "terminated"
    /\ crawler' = "SystemExit"
    /\ pc' = "thread_ended"
    /\ op' = "step"
    /\ UNCHANGED <<now, envVars, schedVars, genVars, apiVars, deadline, ctlVars, parseVars,
                   parsed_page, exit_status, main_log, skipTraining>>

\* main.py 148-156: join returns, however the crawler thread ended (an
\* exception raised in the thread stays in the thread), the success message
\* is logged, then "pkill firefox.real" and sys.exit(0)
MainJoin ==
    /\ pc = "thread_ended"
    /\ main_log' = "state: THREAT/crawl execution terminated successfully."
    /\ browser' = IF browser = "running" THEN "killed" ELSE browser
    /\ exit_status' = <<0>>
    /\ pc' = "exited"
    /\ op' = "step"
    /\ UNCHANGED <<now, envVars, schedVars, genVars, apiVars, deadline, ctlVars, parseVars,
                   parsed_page, possible_train_calls, crawler, skipTraining>>

\* main.py 130: the constructor of CrawlerTimeController has called exit(0)
ExitInfeasibleDay ==
    /\ pc = "start"
    /\ gpc = "exit0"
    /\ exit_status' = <<0>>
    /\ pc' = "exited"
    /\ op' = "step"
    /\ UNCHANGED <<now, envVars, schedVars, genVars, apiVars, deadline, ctlVars, parseVars,
                   parsed_page, possible_train_calls, browser, crawler, main_log, skipTraining>>

-----------------------------------------------------------------------------
(* The CLI thread (CLI.execute_command) and its commands                   *)

CliReading == cli_on /\ gpc = "done" /\ exit_status = <<>>

\* CrawlCommand.pause
CmdPause ==
    /\ CliReading
    /\ pause_event' = TRUE
    /\ op' = "pause"
    /\ UNCHANGED <<now, envVars, schedVars, genVars, apiVars, coordVars, terminate_event, cli_on,
                   parseVars, procVars, skipTraining>>

\* a terminate command that also notifies the resume condition
terminate_and_notify ==
    /\ terminate_event' = TRUE
    /\ pc' = IF pc \in ResumeWaits THEN AfterWait(pc) ELSE pc
    /\ deadline' = IF pc \in ResumeWaits THEN 0 ELSE deadline

\* CrawlCommand.terminate
terminate ==
    /\ terminate_event' = TRUE
    /\ UNCHANGED <<pc, deadline>>

\* the CLI loop on "terminate": on = False, then the command
CmdTerminate ==
    /\ CliReading
    /\ cli_on' = FALSE
    /\ terminate
    /\ op' = "terminate"
    /\ UNCHANGED <<now, envVars, schedVars, genVars, apiVars, pause_event,
                   parseVars, procVars, skipTraining>>

\* a resume command with the commented-out self.pause.clear() in effect
resume_clearing_pause ==
    /\ pause_event' = FALSE
    /\ pc' = IF pc \in ResumeWaits THEN AfterWait(pc) ELSE pc
    /\ deadline' = IF pc \in ResumeWaits THEN 0 ELSE deadline

\* a resume command whose notify reaches nobody
resume_without_notify == UNCHANGED <<pause_event, pc, deadline>>

\* CrawlCommand.resume: notify wakes the thread waiting on the resume
\* condition, if there is one; the pause event is left as it is
resume ==
    /\ pause_event' = pause_event
    /\ pc' = IF pc \in ResumeWaits THEN AfterWait(pc) ELSE pc
    /\ deadline' = IF pc \in ResumeWaits THEN 0 ELSE deadline

\* the CLI loop on "resume"
CmdResume ==
    /\ CliReading
    /\ resume
    /\ op' = "resume"
    /\ UNCHANGED <<now, envVars, schedVars, genVars, apiVars, terminate_event, cli_on, parseVars,
                   procVars, skipTraining>>

\* CaptchaCommand.solved: notify wakes the thread waiting in solve_captcha
CmdSolved ==
    /\ CliReading
    /\ pc' = IF pc = "captcha_wait" THEN cap_ret ELSE pc
    /\ cap_ret' = IF pc = "captcha_wait" THEN "none" ELSE cap_ret
    /\ op' = "solved"
    /\ UNCHANGED <<now, envVars, schedVars, genVars, apiVars, deadline, ctlVars, captcha, training,
                   reuse, need_training, waited, parse_ret, train_left, procVars, skipTraining>>

-----------------------------------------------------------------------------
(* Initial states and specifications                                       *)

\* CrawlerTimeController.__init__ before __generate_schedule runs
ControllerInit ==
    /\ break_queue = <<>>
    /\ interrupt_queue = <<>>
    /\ end_crawling_time = 0
    /\ start_time = 0
    /\ gpc = "start"
    /\ current_time = 0
    /\ br_idx = 1
    /\ break_list = <<>>
    /\ li = 1
    /\ calculate_time = 0
    /\ cron = <<>>
    /\ ret = NoRet
    /\ op = "init"
    /\ err = "none"
    /\ arg = NoArg
    /\ adhoc = NoAdHoc
    /\ nadd = 0

\* the state after the objects of main.py are constructed
CrawlInit ==
    /\ pc = "start"
    /\ deadline = 0
    /\ pause_event = FALSE
    /\ terminate_event = FALSE
    /\ cli_on = TRUE
    /\ captcha = NoCaptcha
    /\ training = FALSE
    /\ reuse = FALSE
    /\ need_training = ~skipTraining
    /\ waited = FALSE
    /\ parse_ret = "none"
    /\ cap_ret = "none"
    /\ train_left = 0
    /\ parsed_page = NoPage
    /\ possible_train_calls = 0
    /\ browser = "none"
    /\ crawler = "idle"
    /\ exit_status = <<>>
    /\ main_log = "none"

\* the time controller alone, its operations called in any order
InitSched ==
    /\ now \in BuildTimes
    /\ sys_offset \in SysOffsets
    /\ weekdaynr = 0
    /\ skip_tokens = FALSE
    /\ \E p \in Profiles :
        /\ schedule = EveryDay(p)
        /\ workday = setup_workday(p, now)
    /\ skipTraining = FALSE
    /\ ControllerInit
    /\ CrawlInit

NextSched ==
    \/ GenStartEnd
    \/ GenBreak
    \/ GenBoundaries
    \/ GenBoundary
    \/ GenFill
    \/ GenFillExit
    \/ GenFinish
    \/ Tick
    \/ CallCheck
    \/ CallAddInterrupt
    \/ CallStatus

SpecSched == InitSched /\ [][NextSched]_vars

\* the whole process: main.py builds the schedule, then the crawler thread
\* and the CLI thread run while time passes
Init ==
    /\ now \in ProgramBuildTimes
    /\ sys_offset = 0
    /\ weekdaynr = 0
    /\ skip_tokens = FALSE
    /\ \E p \in ProgramProfiles :
        /\ schedule = EveryDay(p)
        /\ workday = setup_workday(p, now)
    /\ skipTraining \in BOOLEAN
    /\ ControllerInit
    /\ CrawlInit

Crawler ==
    \/ StartStatus
    \/ StartCheck
    \/ StartBrowser
    \/ TrainSeq
    \/ ParseDetect
    \/ ParseOnPage
    \/ ParseTrain
    \/ ParseReturn
    \/ CrawlNext
    \/ LoopStatus
    \/ WaitTimeout
    \/ InteractCheck
    \/ PauseCheck
    \/ PauseSleep
    \/ TerminateCheck
    \/ EndCheck
    \/ Shutdown
    \/ TerminateCrawling
    \/ MainJoin
    \/ ExitInfeasibleDay

Builder ==
    \/ GenStartEnd
    \/ GenBreak
    \/ GenBoundaries
    \/ GenBoundary
    \/ GenFill
    \/ GenFillExit
    \/ GenFinish

Next ==
    \/ GenStartEnd
    \/ GenBreak
    \/ GenBoundaries
    \/ GenBoundary
    \/ GenFill
    \/ GenFillExit
    \/ GenFinish
    \/ Tick
    \/ StartStatus
    \/ StartCheck
    \/ StartBrowser
    \/ TrainSeq
    \/ ParseDetect
    \/ ParseOnPage
    \/ ParseTrain
    \/ ParseReturn
    \/ CrawlNext
    \/ LoopStatus
    \/ WaitTimeout
    \/ InteractCheck
    \/ PauseCheck
    \/ PauseSleep
    \/ TerminateCheck
    \/ EndCheck
    \/ Shutdown
    \/ TerminateCrawling
    \/ MainJoin
    \/ ExitInfeasibleDay
    \/ CmdPause
    \/ CmdTerminate
    \/ CmdResume
    \/ CmdSolved

\* the time controller started during or after the workday, with the clock
\* advancing and checks being made for ever
FairBuildTimes == {HoursMinutes(<<9, 30>>), HoursMinutes(<<17, 30>>)}
InitFairSched == InitSched /\ now \in FairBuildTimes
FairSched ==
    /\ InitFairSched
    /\ [][NextSched]_vars
    /\ WF_vars(Tick) /\ WF_vars(Builder) /\ WF_vars(CallCheck)

Spec == Init /\ [][Next]_vars

\* main.py 118: configuration.setup_workday()
ConfigSetup ==
    /\ gpc = "config"
    /\ workday' = setup_workday(prepare_breaks_and_start_end_time(weekdaynr, 0), now)
    /\ gpc' = "start"
    /\ op' = "config"
    /\ UNCHANGED <<crawlVars, now, sys_offset, weekdaynr, schedule, skip_tokens, schedVars,
                   current_time, br_idx, break_list, li, calculate_time, cron, apiVars>>

\* the crontab job that started this run, if the runner script did
LaunchTrigger == HoursMinutes(prepare_breaks_and_start_end_time(weekdaynr, 0).workday[1])

\* the start of main.py on any day of the week: the configuration is read,
\* then the workday is set up and the schedule built
InitWeek ==
    /\ now \in ProgramBuildTimes
    /\ sys_offset = 0
    /\ weekdaynr \in 0..(DaysPerWeek - 1)
    /\ schedule \in WeekSchedules
    /\ skip_tokens \in BOOLEAN
    /\ workday = <<>>
    /\ skipTraining = FALSE
    /\ break_queue = <<>>
    /\ interrupt_queue = <<>>
    /\ end_crawling_time = 0
    /\ start_time = 0
    /\ gpc = "config"
    /\ current_time = 0
    /\ br_idx = 1
    /\ break_list = <<>>
    /\ li = 1
    /\ calculate_time = 0
    /\ cron = IF skip_tokens THEN <<LaunchTrigger>> ELSE <<>>
    /\ ret = NoRet
    /\ op = "init"
    /\ err = "none"
    /\ arg = NoArg
    /\ adhoc = NoAdHoc
    /\ nadd = 0
    /\ CrawlInit

NextWeek ==
    \/ ConfigSetup
    \/ GenStartEnd
    \/ GenBreak
    \/ GenBoundaries
    \/ GenBoundary
    \/ GenFill
    \/ GenFillExit
    \/ GenFinish

SpecWeek == InitWeek /\ [][NextWeek]_vars

\* main.py runs on: a statement that can be executed is executed
FairWeek == SpecWeek /\ WF_vars(NextWeek)

\* the clock advances, and a thread that can take a step takes it
FairSpec == Spec /\ WF_vars(Tick) /\ WF_vars(Builder) /\ WF_vars(Crawler)

-----------------------------------------------------------------------------
(* Properties of the time controller                                        *)

BreakDue == break_queue # <<>> /\ Head(break_queue)[1] <= now
InterruptDue == interrupt_queue # <<>> /\ Last(interrupt_queue)[1] <= now
NoDueEntry ==
    /\ \A i \in 1..Len(break_queue) : break_queue[i][1] > now
    /\ \A j \in 1..Len(interrupt_queue) : interrupt_queue[j][1] > now
Sorted(q) == \A i, j \in 1..Len(q) : i < j => q[i][1] <= q[j][1]
IsSuffix(s, t) == Len(s) <= Len(t) /\ s = SubSeq(t, Len(t) - Len(s) + 1, Len(t))
\* the break queue as __generate_schedule left it
BuiltBreaks == Front(break_list)

\* C1: a check_break_interrupt call pops at most one entry, and when the head
\* break and the next interruption are both due it returns the break's
\* duration, pops that break and leaves the interruption queued.
C1_OnePopBreakFirst ==
    [][op' = "check" =>
        /\ Len(break_queue') + Len(interrupt_queue')
             >= Len(break_queue) + Len(interrupt_queue) - 1
        /\ (BreakDue /\ InterruptDue =>
              /\ ret' = <<Head(break_queue)[2]>>
              /\ break_queue' = Tail(break_queue)
              /\ interrupt_queue' = interrupt_queue)]_vars

\* a check has just returned a break while a due interruption is still queued
C1_Witness ==
    /\ op = "check"
    /\ Len(break_queue) < Len(BuiltBreaks)
    /\ ret # <<0>>
    /\ InterruptDue
    /\ \E i \in 1..Len(BuiltBreaks) : ret = <<BuiltBreaks[i][2]>> /\ BuiltBreaks[i][1] <= now
    /\ \A j \in 1..Len(interrupt_queue) : ret # <<interrupt_queue[j][2]>>

\* C2: the break queue built by __generate_schedule has non-decreasing start
\* times and holds the N configured breaks, or N + 1 entries with the initial
\* wait for the day's start, and check_break_interrupt hands them out in that
\* order (what is still queued is always the tail of what was built).
C2_BreakQueueOrdered ==
    gpc = "done" =>
        /\ Sorted(BuiltBreaks)
        /\ Len(BuiltBreaks) \in {Len(workday.breaks), Len(workday.breaks) + 1}
        /\ IsSuffix(break_queue, BuiltBreaks)

\* C3: every interruption placed by __generate_schedule ends at least 600 s
\* before the break or end-of-day boundary that chronologically follows it.
C3_InterruptBuffer ==
    (gpc = "done" /\ op = "build") =>
        \A j \in 1..Len(interrupt_queue) : \A b \in 1..Len(break_list) :
            break_list[b][1] >= interrupt_queue[j][1] =>
                interrupt_queue[j][1] + interrupt_queue[j][2] + BufferSeconds
                    <= break_list[b][1]

\* C4: a check_break_interrupt call made when no entry of either queue is
\* due returns 0 and changes neither queue.
C4_NoDueNoChange ==
    [][(op' = "check" /\ NoDueEntry) =>
        /\ ret' = <<0>>
        /\ break_queue' = break_queue
        /\ interrupt_queue' = interrupt_queue]_vars

\* a check has just returned 0 with entries waiting, not yet due, in both queues
C4_Witness ==
    /\ op = "check"
    /\ ret = <<0>>
    /\ NoDueEntry
    /\ break_queue # <<>>
    /\ interrupt_queue # <<>>

\* C5: _add_interrupt with a negative duration raises ValueError and changes
\* neither queue.
C5_NegativeRejected ==
    [][(op' = "add" /\ arg'[1] < 0) =>
        /\ err' = "ValueError"
        /\ break_queue' = break_queue
        /\ interrupt_queue' = interrupt_queue]_vars

\* a negative duration has just been rejected, with interruptions queued
C5_Witness ==
    /\ op = "add"
    /\ arg = <<-5>>
    /\ err = "ValueError"
    /\ interrupt_queue # <<>>

\* C6: after _add_interrupt(d), d >= 0, the next check_break_interrupt made
\* at that same instant with no break due returns d.
C6_AdHocReturnedNext ==
    [][(op' = "check" /\ adhoc # NoAdHoc /\ ~BreakDue) => ret' = adhoc]_vars

-----------------------------------------------------------------------------
(* Properties of the control signals and of the crawl loop                  *)

\* the detected CAPTCHA is of a type that solve_captcha blocks for
NeedsHuman == captcha.on_page /\ captcha.type # "HONEYPOT"

\* the process has exited with status 0 after _terminate_crawling has run
OrderlyExit ==
    /\ exit_status = <<0>>
    /\ possible_train_calls = 1
    /\ browser = "terminated"

\* C7: once terminate is set it stays set in every later state, whatever
\* command or wait follows; a resume wait that is in progress or begins with
\* terminate set still returns; and the terminate check of __crawling
\* (line 355), made with terminate set, goes to the shutdown.
C7_TerminateSticky ==
    /\ [][terminate_event => terminate_event']_vars
    /\ [][(pc = "terminate_check" /\ terminate_event)
            => pc' \in {"terminate_check", "shutdown"}]_vars
    /\ ((terminate_event /\ pc \in ResumeWaits) ~> (pc \notin ResumeWaits))

\* the terminate check has just evaluated true, outside a pause
C7_Witness ==
    /\ pc = "shutdown"
    /\ terminate_event
    /\ ~pause_event
    /\ op = "step"

\* C8: once terminate is set and the crawler thread is not blocked in the
\* CAPTCHA wait, the process eventually exits with status 0 after the orderly
\* shutdown (possible_train, then terminate_browser), unless the thread
\* blocks in a CAPTCHA wait on the way.
C8_TerminateLeadsToOrderlyExit ==
    (terminate_event /\ pc # "captcha_wait") ~> (OrderlyExit \/ pc = "captcha_wait")

\* C9: a resume wait ends only by a resume notify or by its timeout having
\* elapsed, the CAPTCHA wait ends only by a solved notify, and a terminate
\* or pause command leaves the crawler thread where it is.
C9_WaitsNotPreempted ==
    [][/\ (pc \in ResumeWaits /\ pc' # pc)
            => (op' = "resume" \/ (op' = "timeout" /\ now >= deadline))
       /\ (pc = "captcha_wait" /\ pc' # pc) => op' = "solved"
       /\ (op' \in {"terminate", "pause"}) => pc' = pc]_vars

\* terminate has just been requested during a wait whose timeout has not
\* elapsed, and the wait goes on
C9_Witness ==
    /\ op = "terminate"
    /\ terminate_event
    /\ pc \in ResumeWaits
    /\ now < deadline

\* C10: a parse_page call has blocked in solve_captcha exactly when the
\* CAPTCHA it detected is not a HONEYPOT, and the crawler thread leaves the
\* CAPTCHA wait by a solved notify only.
C10_CaptchaWaitIffNotHoneypot ==
    [][/\ (pc' = "parse_return" /\ pc # "parse_return") => (waited' <=> NeedsHuman')
       /\ (pc = "captcha_wait" /\ pc' # pc) => op' = "solved"]_vars

\* C11: while the crawler thread is blocked in the CAPTCHA wait with
\* terminate set, it stays there until a solved notify, and the CLI is still
\* reading commands, so that the operator's solved can be delivered.
C11_SolvedDeliverableAfterTerminate ==
    [][(pc = "captcha_wait" /\ terminate_event)
        => /\ CliReading
           /\ (pc' # pc => op' = "solved")]_vars

\* the pause loop of __crawling (lines 347-353)
PausePoll == {"pause_check", "pause_sleep"}

\* C12: after a pause and then a resume, the crawler thread that is polling
\* the pause event leaves its poll loop by the loop condition and goes on
\* with the iteration (the terminate check of line 355), unless a terminate
\* request comes first.
C12_ResumeEndsPause ==
    (pause_event /\ pc \in PausePoll /\ op = "resume")
        ~> (pc = "terminate_check" \/ terminate_event)

\* every variable that a command of the CLI could change besides op
cmdFrame == <<now, envVars, schedVars, genVars, apiVars, crawlVars>>

\* C13: a resume command leaves the pause and the terminate events as they
\* are, and a pause command given when pause is already set changes nothing.
C13_ResumeKeepsFlags ==
    [][/\ (op' = "resume" =>
              /\ pause_event' = pause_event
              /\ terminate_event' = terminate_event)
       /\ ((op' = "pause" /\ pause_event) => cmdFrame' = cmdFrame)]_vars

\* resume has just been given to a paused crawler, which is still paused
C13_Witness ==
    /\ op = "resume"
    /\ pause_event
    /\ pc \in PausePoll

\* C14: a resume wait always returns: a resume command delivered during the
\* wait ends it at once, whatever is left of the timeout, the thread then
\* goes on with the statement after the wait, and no wait lasts for ever.
C14_WaitReturns ==
    /\ [][(pc \in ResumeWaits /\ op' = "resume") => pc' = AfterWait(pc)]_vars
    /\ [][(pc \in ResumeWaits /\ pc' # pc) => pc' = AfterWait(pc)]_vars
    /\ (pc \in ResumeWaits) ~> (pc \notin ResumeWaits)

\* a resume has ended the wait for the start of the workday early
C14_Witness ==
    /\ pc = "start_browser"
    /\ op = "resume"
    /\ now < start_time

\* C15: a resume or solved notify issued while the crawler thread is not
\* waiting on that condition changes nothing, so the wait that comes next
\* still blocks: the reading wait begins whatever was notified before, and
\* solve_captcha blocks for a CAPTCHA that needs the operator even when a
\* solved notify was issued just before the call.
C15_NotifyWithoutWaiterLost ==
    [][/\ ((op' = "resume" /\ pc \notin ResumeWaits) => cmdFrame' = cmdFrame)
       /\ ((op' = "solved" /\ pc # "captcha_wait") => cmdFrame' = cmdFrame)
       /\ ((pc = "parse_onpage" /\ pc' # pc /\ ~training /\ NeedsHuman /\ ~captcha.full_page)
              => pc' = "captcha_wait")
       /\ ((pc = "loop_status" /\ pc' # pc) => pc' = "fetch_wait")]_vars

\* a solved notify has just been issued with nobody waiting, right before the
\* crawler thread calls solve_captcha for a CAPTCHA that needs the operator
C15_Witness ==
    /\ op = "solved"
    /\ pc = "parse_onpage"
    /\ ~training
    /\ NeedsHuman
    /\ ~captcha.full_page

\* C16: the crawler thread goes to the end-of-day shutdown only from the
\* end-of-day check of an iteration whose page is not a thread page; with a
\* thread page it goes on to the next page, also after the end of the
\* workday.
C16_NoEndOfDayInsideThread ==
    [][/\ ((pc' = "terminate_crawling" /\ pc # "terminate_crawling")
              => (pc = "end_check" /\ parsed_page.page_type # "ThreadPage"))
       /\ ((pc = "end_check" /\ pc' # pc /\ parsed_page.page_type = "ThreadPage")
              => pc' = "crawl_next")]_vars

\* the end-of-day check has just let the crawl go on with a thread page after
\* the end of the workday
C16_Witness ==
    /\ op = "end_check"
    /\ pc = "crawl_next"
    /\ parsed_page.page_type = "ThreadPage"
    /\ now >= end_crawling_time

\* C17: the end instant does not change once the schedule is built;
\* check_end_time is true exactly when now >= that instant; the end-of-day
\* check made at such a time with a page that is not a thread page goes to
\* _terminate_crawling, and the process then exits after the orderly shutdown.
C17_EndOfDayShutdown ==
    /\ [][gpc = "done" => end_crawling_time' = end_crawling_time]_vars
    /\ [](gpc = "done" => (check_end_time <=> now >= end_crawling_time))
    /\ [][(pc = "end_check" /\ pc' # pc /\ parsed_page.page_type # "ThreadPage"
             /\ now >= end_crawling_time) => pc' = "terminate_crawling"]_vars
    /\ (pc = "terminate_crawling") ~> OrderlyExit

\* the process has exited through the end-of-day shutdown
C17_Witness ==
    /\ OrderlyExit
    /\ crawler = "SystemExit"
    /\ ~terminate_event
    /\ now >= end_crawling_time

ScenarioABuilt ==
    /\ gpc = "done"
    /\ op = "build"
    /\ workday = setup_workday(ScenarioA, HoursMinutes(<<9, 0>>))
    /\ current_time <= HoursMinutes(<<9, 0>>)

\* C19: Scenario A (09:00-17:00, break 12:00-13:00, no deviations, an
\* interruption every 120 min lasting 10 to 15 min) built at or before 09:00:
\* the configured break is queued as (12:00, 3600 s), after the wait for
\* 09:00 if there is one; there are exactly two interruptions, at 11:00 and
\* at 15:00, of 600 to 900 s; none ends within 600 s of 12:00 or of 17:00.
C19_ScenarioA ==
    ScenarioABuilt =>
        /\ break_queue =
              (IF current_time < HoursMinutes(<<9, 0>>)
               THEN <<<<current_time, HoursMinutes(<<9, 0>>) - current_time>>>>
               ELSE <<>>)
              \o <<<<HoursMinutes(<<12, 0>>), HoursMinutes(<<1, 0>>)>>>>
        /\ Len(interrupt_queue) = 2
        /\ interrupt_queue[2][1] = HoursMinutes(<<11, 0>>)
        /\ interrupt_queue[1][1] = HoursMinutes(<<15, 0>>)
        /\ \A j \in 1..2 :
              /\ interrupt_queue[j][2] >= HoursMinutes(<<0, 10>>)
              /\ interrupt_queue[j][2] <= HoursMinutes(<<0, 15>>)
        /\ interrupt_queue[2][1] + interrupt_queue[2][2] + BufferSeconds <= HoursMinutes(<<12, 0>>)
        /\ interrupt_queue[1][1] + interrupt_queue[1][2] + BufferSeconds <= HoursMinutes(<<17, 0>>)

\* Scenario A built at 09:00 sharp, with the longest first interruption
C19_Witness ==
    /\ ScenarioABuilt
    /\ current_time = HoursMinutes(<<9, 0>>)
    /\ Len(interrupt_queue) = 2
    /\ interrupt_queue[2] = <<HoursMinutes(<<11, 0>>), HoursMinutes(<<0, 15>>)>>

\* C20: every shutdown of the crawler thread, from the terminate check, from
\* the terminate poll of the pause loop or from the end-of-day check, calls
\* possible_train exactly once and then terminates the browser, and the
\* process exits after it.
C20_ShutdownTrainsOnce ==
    /\ [][(pc \in {"shutdown", "terminate_crawling"} /\ pc' # pc) =>
            /\ possible_train_calls' = possible_train_calls + 1
            /\ browser' = "terminated"
            /\ pc' = "thread_ended"]_vars
    /\ [](pc = "exited" /\ gpc = "done" => possible_train_calls = 1 /\ browser = "terminated")

-----------------------------------------------------------------------------
(* Properties of the start of the process and of the handing out of the     *)
(* schedule                                                                 *)

\* the schedule was built before the start instant of the workday
BuiltBeforeStart == start_time > current_time

\* the break __generate_schedule queues for the wait until the start instant
InitialBreak == <<current_time, start_time - current_time>>

\* C21: when the schedule is built before the start instant, the initial
\* break (build time, start instant - build time) is at the head of the break
\* queue, ahead of every configured break; the check_break_interrupt call of
\* start_crawling returns its duration and the wait for it begins; the browser
\* is started and the first page parsed only after that wait has returned, by
\* its timeout or by a resume notify.
C21_InitialBreakFirst ==
    /\ []((gpc = "done" /\ pc \in {"start", "start_check"} /\ BuiltBeforeStart)
            => (break_queue # <<>> /\ Head(break_queue) = InitialBreak))
    /\ [][(pc = "start_check" /\ pc' # pc /\ BuiltBeforeStart) =>
            /\ ret' = <<InitialBreak[2]>>
            /\ break_queue' = Tail(break_queue)
            /\ pc' = "start_wait"
            /\ deadline' = MinOf(now + InitialBreak[2], MaxTime)]_vars
    /\ [][(pc' = "start_browser" /\ pc # "start_browser" /\ BuiltBeforeStart) =>
            /\ pc = "start_wait"
            /\ (op' = "resume" \/ (op' = "timeout" /\ now >= deadline))]_vars
    /\ []((gpc = "done" /\ pc \in {"start", "start_check", "start_wait", "start_browser"})
            => (browser = "none" /\ parsed_page = NoPage))

\* the wait for the start of the workday has timed out with a configured
\* break still queued, and the browser is about to be started
C21_Witness ==
    /\ BuiltBeforeStart
    /\ pc = "start_browser"
    /\ op = "timeout"
    /\ now >= start_time
    /\ break_queue # <<>>
    /\ browser = "none"

\* the number of times entry e is queued in q
Count(q, e) == Cardinality({i \in 1..Len(q) : q[i] = e})

\* r is q with the entry at one position taken out, and that entry is e
RemovedFrom(q, r, e) ==
    \E i \in 1..Len(q) :
        /\ q[i] = e
        /\ r = SubSeq(q, 1, i - 1) \o SubSeq(q, i + 1, Len(q))

\* some queued entry has a start that has passed
DueEntry == ~NoDueEntry

\* a queued entry starts after the last instant the clock of the model reaches
BeyondHorizon ==
    \/ \E i \in 1..Len(break_queue) : break_queue[i][1] > MaxTime
    \/ \E j \in 1..Len(interrupt_queue) : interrupt_queue[j][1] > MaxTime

\* C22: no queued break or interruption is skipped.  A check_break_interrupt
\* call either returns 0 and removes nothing, or removes exactly one entry,
\* whose start has passed, and returns its duration; no other operation
\* removes an entry, and only _add_interrupt puts one in once the schedule is
\* built, so a popped entry never comes back; and while the clock advances and
\* checks are made, every entry whose start has passed is eventually popped
\* (as far as the clock of the model goes: an entry stamped later than MaxTime
\* never becomes due here).
C22_NoEntrySkipped ==
    /\ [][(gpc = "done" /\ op' = "check") =>
            \/ /\ ret' = <<0>>
               /\ break_queue' = break_queue
               /\ interrupt_queue' = interrupt_queue
            \/ \E e \in {break_queue[i] : i \in 1..Len(break_queue)} :
                  /\ e[1] <= now
                  /\ ret' = <<e[2]>>
                  /\ RemovedFrom(break_queue, break_queue', e)
                  /\ interrupt_queue' = interrupt_queue
            \/ \E e \in {interrupt_queue[j] : j \in 1..Len(interrupt_queue)} :
                  /\ e[1] <= now
                  /\ ret' = <<e[2]>>
                  /\ RemovedFrom(interrupt_queue, interrupt_queue', e)
                  /\ break_queue' = break_queue]_vars
    /\ [][(gpc = "done" /\ op' # "check") =>
            /\ break_queue' = break_queue
            /\ \A e \in {interrupt_queue[j] : j \in 1..Len(interrupt_queue)} :
                  Count(interrupt_queue', e) >= Count(interrupt_queue, e)
            /\ (op' # "add" => Len(interrupt_queue') = Len(interrupt_queue))]_vars
    /\ (gpc = "done" /\ DueEntry) ~> (gpc = "done" /\ (NoDueEntry \/ BeyondHorizon))

\* the last entry of a built schedule with breaks and interruptions has just
\* been handed out, after a status report and a check that returned 0
C22_Witness ==
    /\ op = "check"
    /\ ret # <<0>>
    /\ break_queue = <<>>
    /\ interrupt_queue = <<>>
    /\ Len(BuiltBreaks) >= 2
    /\ nadd = 1
    /\ adhoc = NoAdHoc

\* the crawler thread was ended by an exception other than the SystemExit of
\* sys.exit
EndedByException == crawler \notin {"idle", "running", "SystemExit"}

\* C23: when an exception escapes the crawl loop and ends the crawler thread,
\* the process exits with status 0 with the browser killed, and what main.py
\* has logged about the end of the crawl is the error, not a success message.
C23_EscapedExceptionLogged ==
    (pc = "exited" /\ EndedByException) =>
        /\ exit_status = <<0>>
        /\ browser = "killed"
        /\ main_log # "state: THREAT/crawl execution terminated successfully."

-----------------------------------------------------------------------------
(* Properties of the restart trigger and of the days of the week            *)

\* the calendar day of an instant, counted from today
DayOf(t) == t \div SecondsPerDay

\* C24: every run of __generate_schedule, the one that ends in the exit of an
\* infeasible day included, leaves exactly one crontab job tagged
\* 'crawler_execution', whatever job with that tag was there before, and the
\* job is set to the instant get_start_date_next_day returns, which lies on a
\* later calendar day than today.
C24_OneRestartTrigger ==
    gpc \in {"done", "exit0"} =>
        /\ Len(cron) = 1
        /\ cron[1] = get_start_date_next_day
        /\ DayOf(cron[1]) > DayOf(now)

\* a run started by the crontab job of the day before has ended in the exit of
\* an infeasible day, with the next trigger in place of the old one
C24_Witness ==
    /\ gpc = "exit0"
    /\ skip_tokens
    /\ start_time > end_crawling_time
    /\ cron = <<SecondsPerDay + LaunchTrigger>>

\* the number of days from today to the first workday from weekday nr on
DaysUntilWorkday(nr) == next_workday(nr) - weekdaynr

\* C30: setup_workday places the end of the workday (with its start and its
\* breaks) on the calendar date of the first workday, today or later, and
\* get_start_date_next_day returns an instant on the date of the first workday
\* after today.
C30_DateAdvancesWithWeekday ==
    gpc # "config" =>
        /\ DayOf(workday.end_time) = DaysUntilWorkday(weekdaynr)
        /\ \A i \in 1..Len(workday.breaks) :
              DayOf(workday.breaks[i][1]) = DaysUntilWorkday(weekdaynr)
        /\ DayOf(get_start_date_next_day) = DaysUntilWorkday(weekdaynr + 1)

-----------------------------------------------------------------------------
(* Properties of the polling of the control signals                         *)

\* the positions whose next statement is an external step: start_browser,
\* interact_with_page, next_page
ExternalSteps == {"start_browser", "interact", "crawl_next"}

\* C25: when a resume wait (start wait, reading wait, break or interrupt wait)
\* returns with terminate set, the crawler thread does not go on to an
\* external step (browser start, page interaction, page fetch): it comes to a
\* test of terminate first.
C25_TerminatePolledAfterWake ==
    [][(terminate_event /\ pc \in ResumeWaits /\ pc' # pc) => pc' \notin ExternalSteps]_vars

\* C26: in the pause loop with pause set and terminate not set, the crawler
\* thread goes round the loop (the test of pause, the 2-second sleep) and
\* nowhere else, and no page is fetched or interacted with meanwhile; the
\* poll made after a sleep with terminate set goes to __shutdown, not back
\* to the loop or to the crawl.
C26_PausedStaysPaused ==
    /\ [][(pc \in PausePoll /\ pause_event /\ ~terminate_event) => pc' \in PausePoll]_vars
    /\ [][(pc \in PausePoll /\ pc' \in PausePoll) =>
            /\ parsed_page' = parsed_page
            /\ browser' = browser
            /\ schedVars' = schedVars]_vars
    /\ [][(pc \in PausePoll /\ pause_event /\ terminate_event /\ pc' # pc) =>
            \/ (pc = "pause_check" /\ pc' = "pause_sleep")
            \/ (pc = "pause_sleep" /\ pc' = "shutdown")]_vars

\* terminate came during the pause, and the poll after the sleep has gone to
\* the shutdown
C26_Witness ==
    /\ pc = "shutdown"
    /\ op = "pause_poll"
    /\ pause_event
    /\ terminate_event

-----------------------------------------------------------------------------
(* Properties of the status report                                          *)

\* C27: a status report (generate_cli_status) leaves the break queue and the
\* interruption queue with the same entries in the same order.
C27_StatusReadOnly ==
    [][op' = "status" =>
        /\ break_queue' = break_queue
        /\ interrupt_queue' = interrupt_queue]_vars

\* the queued interruption with the earliest start
EarliestInterrupt ==
    CHOOSE e \in {interrupt_queue[j] : j \in 1..Len(interrupt_queue)} :
        \A j \in 1..Len(interrupt_queue) : e[1] <= interrupt_queue[j][1]

\* C28: at every check_break_interrupt call of the crawler thread made when
\* no break is due, the interruption examined is the queued one with the
\* earliest start: if its start has passed it is the one popped and returned,
\* and otherwise 0 is returned.
C28_EarliestInterruptExamined ==
    [][(op' = "check" /\ ~BreakDue /\ interrupt_queue # <<>>) =>
        IF EarliestInterrupt[1] <= now
        THEN /\ ret' = <<EarliestInterrupt[2]>>
             /\ RemovedFrom(interrupt_queue, interrupt_queue', EarliestInterrupt)
        ELSE /\ ret' = <<0>>
             /\ interrupt_queue' = interrupt_queue]_vars

-----------------------------------------------------------------------------
(* Properties of the placement of the interruptions                         *)

\* C29: the placement of the interruptions terminates: a candidate that is
\* rejected leaves the cursor at or after the boundary, so that the filling
\* of that gap ends, and __generate_schedule comes to its end.
C29_PlacementTerminates ==
    /\ [][(gpc = "fill" /\ gpc' = "fill" /\ interrupt_queue' = interrupt_queue)
            => ~(calculate_time' < break_list[li][1])]_vars
    /\ <>(gpc \in {"done", "exit0"})

====
